---------------------------- MODULE Spec2Model ----------------------------
(***************************************************************************)
(* Model of the plugin descriptor (src/src/plugin.ts, class Plugin) and of *)
(* the platform accessory handle (src/src/platformAccessory.ts, class      *)
(* PlatformAccessory).                                                     *)
(*                                                                         *)
(* The specifications share the variables:                                 *)
(*   SpecManifest  construction of a descriptor from a manifest, over the  *)
(*                 shapes of exports/main (entry-point resolution);        *)
(*   SpecLoad      construction, load and initialize, over the shapes of   *)
(*                 engines/peerDependencies/dependencies;                  *)
(*   SpecRegistry  the factory registries and the disabled flag;           *)
(*   SpecDynamic   the dynamic platform lists and the platform registry;   *)
(*   SpecHandle    the accessory handles, their delegates, serialize and   *)
(*                 deserialize;                                            *)
(*   SpecForward   the service operations and the identify forwarding;     *)
(*   SpecLookup    the factory lookups, with registrations and dynamic     *)
(*                 platform assignments;                                   *)
(*   SpecInject    construction and deserialize, and the static slot;      *)
(*   SpecMirror    the operations that touch the mirror fields.            *)
(***************************************************************************)
EXTENDS Naturals, Sequences, FiniteSets, TLC

VARIABLES
    \* ---- Plugin (plugin.ts) ----
    pc,                     \* "new" before the constructor ran, then "constructed" or "threw"
    manifest,               \* history: the manifest as it was handed to the constructor
    packageJSON,            \* the manifest object (the constructor writes its engines)
    main,                   \* Plugin.main
    isESM,                  \* Plugin.isESM
    loadContext,            \* Plugin.loadContext (Undef once consumed)
    pluginInitializer,      \* Plugin.pluginInitializer (Absent until load sets it)
    disabled,               \* Plugin.disabled
    registeredAccessories,  \* Plugin.registeredAccessories
    registeredPlatforms,    \* Plugin.registeredPlatforms
    activeDynamicPlatforms, \* Plugin.activeDynamicPlatforms
    loadPc,                 \* position of the load call that passed the assertion
    imports,                \* number of module imports attempted (require or import())
    invoked,                \* number of invocations of the plugin's initializer
    log,                    \* kinds of messages written to the logger
    assigned,               \* history: the assignDynamicPlatform calls, oldest first
    lastCall,               \* the last operation called and its outcome
    \* ---- PlatformAccessory (platformAccessory.ts) ----
    accessories,            \* the hap Accessory objects (delegates), by reference
    handles,                \* the PlatformAccessory objects, by reference
    injectedAccessory       \* PlatformAccessory.injectedAccessory (static)

pluginVars == <<pc, manifest, packageJSON, main, isESM, loadContext, pluginInitializer, disabled,
                registeredAccessories, registeredPlatforms, activeDynamicPlatforms,
                loadPc, imports, invoked, log, assigned>>
handleVars == <<accessories, handles, injectedAccessory>>
vars == <<pluginVars, handleVars, lastCall>>

-----------------------------------------------------------------------------
(* JavaScript values of the manifest: undefined, a string, or an object     *)
(* (a table from keys to values).                                           *)
Undef == [t |-> "undefined"]
Str(s) == [t |-> "string", s |-> s]
Obj(f) == [t |-> "object", f |-> f]

\* JavaScript truthiness: undefined and the empty string are falsy.
Truthy(v) == v.t = "object" \/ (v.t = "string" /\ v.s # "")

\* a || b
Or(a, b) == IF Truthy(a) THEN a ELSE b

\* o.k for an object o (undefined for a key the object does not have)
Get(o, k) == IF k \in DOMAIN o.f THEN o.f[k] ELSE Undef

\* a reference-valued slot that holds nothing
Absent == "absent"

\* path.endsWith(".mjs") and path.endsWith(".js") over the paths of the model
MjsPaths == {"./import.mjs", "./n/import.mjs", "./main.mjs"}
JsPaths == {"./require.js", "./node.js", "./default.js", "./dot.js",
            "./n/require.js", "./n/node.js", "./n/default.js",
            "./exports.js", "./main.js", "./index.js"}
EndsWithMjs(p) == p \in MjsPaths
EndsWithJs(p) == p \in JsPaths

-----------------------------------------------------------------------------
(* Plugin.constructor: entry-point resolution (lines 63-89), module format  *)
(* (line 92), the peerDependencies shim (lines 94-98), the load context     *)
(* (lines 100-103).                                                         *)

\* a selection that asks for require before import
SelectExportRequireFirst(e) ==
    Or(Get(e, "require"), Or(Get(e, "import"), Or(Get(e, "node"),
       Or(Get(e, "default"), Get(e, ".")))))

\* line 71: import || require || node || default || ["."]
SelectExport(e) ==
    Or(Get(e, "import"), Or(Get(e, "require"), Or(Get(e, "node"),
       Or(Get(e, "default"), Get(e, ".")))))

\* lines 75-79, for a selected value that is a table
NestedExport(x) ==
    IF Truthy(Get(x, "import")) THEN Get(x, "import")
    ELSE Or(Get(x, "require"), Or(Get(x, "node"), Get(x, "default")))

\* lines 74-75: reading exports.import of undefined throws a TypeError
ExportsThrows(pj) ==
    /\ Truthy(pj.exports)
    /\ pj.exports.t = "object"
    /\ SelectExport(pj.exports).t = "undefined"

\* lines 61-84: this.main after the exports search ("" when nothing was found;
\* an undefined result of line 78 is falsy like "")
MainFromExports(pj) ==
    IF ~Truthy(pj.exports) THEN Str("")
    ELSE IF pj.exports.t = "string" THEN pj.exports
    ELSE LET x == SelectExport(pj.exports) IN
         IF x.t = "string" THEN x ELSE NestedExport(x)

\* a resolution that lets main win over exports
ResolveMainPrefersMain(pj) ==
    LET m == MainFromExports(pj) IN
    IF Truthy(pj.main) THEN pj.main.s
    ELSE IF Truthy(m) THEN m.s ELSE "./index.js"

\* lines 86-89
ResolveMain(pj) ==
    LET m == MainFromExports(pj) IN
    IF Truthy(m) THEN m.s ELSE Or(pj.main, Str("./index.js")).s

\* line 92
IsESM(m, pj) == EndsWithMjs(m) \/ (EndsWithJs(m) /\ pj.type = Str("module"))

\* a shim that only acts when the manifest has no engines table at all
ShimEnginesWithoutTable(pj) ==
    IF Truthy(pj.peerDependencies) /\ ~Truthy(pj.engines)
    THEN Obj([k \in {"homebridge"} |-> Get(pj.peerDependencies, "homebridge")])
    ELSE pj.engines

\* lines 94-98: packageJSON.engines after the shim
ShimEngines(pj) ==
    IF Truthy(pj.peerDependencies)
       /\ (~Truthy(pj.engines) \/ ~Truthy(Get(pj.engines, "homebridge")))
    THEN LET keys == IF Truthy(pj.engines) THEN DOMAIN pj.engines.f ELSE {} IN
         Obj([k \in keys \cup {"homebridge"} |->
                IF k = "homebridge" THEN Get(pj.peerDependencies, "homebridge")
                ELSE pj.engines.f[k]])
    ELSE pj.engines

\* lines 100-103
LoadContextOf(pj) == Obj([engines |-> ShimEngines(pj), dependencies |-> pj.dependencies])


-----------------------------------------------------------------------------
(* The manifests the model draws from.                                      *)

TopKeys == {"import", "require", "node", "default", "."}
NestedKeys == {"import", "require", "node", "default"}

\* the path a key holds when it holds a path
TopPath(k) ==
    CASE k = "import" -> "./import.mjs"
      [] k = "require" -> "./require.js"
      [] k = "node" -> "./node.js"
      [] k = "default" -> "./default.js"
      [] OTHER -> "./dot.js"
NestedPath(k) ==
    CASE k = "import" -> "./n/import.mjs"
      [] k = "require" -> "./n/require.js"
      [] k = "node" -> "./n/node.js"
      [] OTHER -> "./n/default.js"

\* a nested conditional-exports table: each key absent, "" or a path
NestedTable(c) ==
    Obj([k \in NestedKeys |->
           CASE c[k] = "undef" -> Undef
             [] c[k] = "empty" -> Str("")
             [] OTHER -> Str(NestedPath(k))])

\* an exports table: each key absent, "", a path or the nested table n
ExportsTable(c, n) ==
    Obj([k \in TopKeys |->
           CASE c[k] = "undef" -> Undef
             [] c[k] = "empty" -> Str("")
             [] c[k] = "path" -> Str(TopPath(k))
             [] OTHER -> n])

\* an exports table with none of the five keys (only a subpath export)
SubpathOnly == Obj("./feature" :> Str("./feature.js"))

ExportsShapes ==
    {Undef, Str(""), Str("./exports.js"), SubpathOnly}
    \cup {ExportsTable(c, NestedTable(d)) :
            c \in [TopKeys -> {"undef", "empty", "path", "nested"}],
            d \in [NestedKeys -> {"undef", "empty", "path"}]}

MainShapes == {Undef, Str(""), Str("./main.js")}

\* version ranges: semver's satisfies() is an external function, modelled by
\* the set of ranges the running version satisfies
HostSatisfied == {"^1.6.0"}
NodeSatisfied == {">=18"}
HostRanges == {"^1.6.0", "^2.0.0"}
NodeRanges == {">=18", ">=99"}
\* (false for a range that is no string, as semver answers for an invalid range)
satisfies(range, ok) == range.t = "string" /\ range.s \in ok

EnginesShapes ==
    {Undef}
    \cup {Obj([homebridge |-> h, node |-> n]) :
            h \in {Undef, Str("")} \cup {Str(r) : r \in HostRanges},
            n \in {Undef} \cup {Str(r) : r \in NodeRanges}}

PeerShapes ==
    {Undef, Obj([other |-> Str("^1.0.0")])}
    \cup {Obj([homebridge |-> Str(r)]) : r \in HostRanges}

DependenciesShapes ==
    {Undef, Obj([lodash |-> Str("^4.0.0")]), Obj([homebridge |-> Str("^1.6.0")]),
     Obj("lodash" :> Str("^4.0.0") @@ "hap-nodejs" :> Str("^0.11.0"))}

Manifest(e, m, ty, en, pd, d) ==
    [exports |-> e, main |-> m, type |-> ty, engines |-> en,
     peerDependencies |-> pd, dependencies |-> d]

\* manifests varying in exports and main
EntryManifests ==
    {Manifest(e, m, Undef, Obj([homebridge |-> Str("^1.6.0")]), Undef, Undef) :
        e \in ExportsShapes, m \in MainShapes}

\* manifests varying in engines, peerDependencies, dependencies and module format
GatingManifests ==
    {Manifest(Undef, m, Undef, en, pd, d) :
        m \in {Undef, Str("./main.mjs")}, en \in EnginesShapes,
        pd \in PeerShapes, d \in DependenciesShapes}

-----------------------------------------------------------------------------
(* The Plugin object.                                                       *)

Names == {<<"A">>, <<"B">>}

\* a call: the method, its arguments, the error it threw ("none" if it
\* returned) and what it returned; `before` is history, the display name the
\* handle had when updateDisplayName was called
NoCall == [op |-> "none", arg |-> <<>>, err |-> "none", ret |-> Absent, before |-> Absent]
Call(op, arg, err, ret) ==
    [op |-> op, arg |-> arg, err |-> err, ret |-> ret, before |-> Absent]

\* the fields before the constructor body ran (field initialisers, lines 37-61)
PluginFieldsInit ==
    /\ pc = "new"
    /\ main = ""
    /\ isESM = FALSE
    /\ loadContext = Undef
    /\ pluginInitializer = Absent
    /\ disabled = FALSE
    /\ registeredAccessories = [n \in Names |-> Absent]
    /\ registeredPlatforms = [n \in Names |-> Absent]
    /\ activeDynamicPlatforms = [n \in Names |-> <<>>]
    /\ loadPc = "idle"
    /\ imports = 0
    /\ invoked = 0
    /\ log = {}
    /\ assigned = <<>>
    /\ lastCall = NoCall

\* new Plugin(name, path, packageJSON): lines 55-104
PluginConstructor ==
    /\ pc = "new"
    /\ IF ExportsThrows(packageJSON)
       THEN /\ pc' = "threw"
            /\ lastCall' = Call("constructor", <<>>, "TypeError", Absent)
            /\ UNCHANGED <<packageJSON, main, isESM, loadContext>>
       ELSE /\ pc' = "constructed"
            /\ packageJSON' = [packageJSON EXCEPT !.engines = ShimEngines(packageJSON)]
            /\ main' = ResolveMain(packageJSON)
            /\ isESM' = IsESM(ResolveMain(packageJSON), packageJSON)
            /\ loadContext' = LoadContextOf(packageJSON)
            /\ lastCall' = Call("constructor", <<>>, "none", Absent)
    /\ UNCHANGED <<manifest, pluginInitializer, disabled, registeredAccessories,
                   registeredPlatforms, activeDynamicPlatforms, loadPc, imports,
                   invoked, log, assigned, handleVars>>


-----------------------------------------------------------------------------
(* Plugin.load and Plugin.initialize.                                       *)

MaxInvocations == 2

\* what require(mainPath) or import(mainPath) can produce: a function, an
\* object whose default is a function, an object with no invocable default,
\* undefined, or a failure of the import itself
ModuleShapes == {"function", "default-function", "object", "undefined", "throws"}

\* a check that only looks for the engines table
MissingEnginesTableOnly(context) == ~Truthy(Get(context, "engines"))

\* a check that also refuses a host version outside the required range
MissingEngineOrUnsatisfied(context) ==
    \/ ~Truthy(Get(context, "engines"))
    \/ ~Truthy(Get(Get(context, "engines"), "homebridge"))
    \/ ~satisfies(Get(Get(context, "engines"), "homebridge"), HostSatisfied)

\* lines 190-193: the engines of the context carry no homebridge requirement
MissingEngine(context) ==
    \/ ~Truthy(Get(context, "engines"))
    \/ ~Truthy(Get(Get(context, "engines"), "homebridge"))

\* lines 195-217: the messages of the non-fatal checks
GatingLog(context) ==
    LET engines == Get(context, "engines")
        versionRequired == Get(engines, "homebridge")
        nodeVersionRequired == Get(engines, "node")
        dependencies == Get(context, "dependencies")
    IN  (IF ~satisfies(versionRequired, HostSatisfied) THEN {"host-version"} ELSE {})
        \cup (IF Truthy(nodeVersionRequired)
                 /\ ~satisfies(nodeVersionRequired, NodeSatisfied)
              THEN {"node-version"} ELSE {})
        \cup (IF Truthy(dependencies)
                 /\ (Truthy(Get(dependencies, "homebridge"))
                     \/ Truthy(Get(dependencies, "hap-nodejs")))
              THEN {"bundled-dependency"} ELSE {})

\* lines 230-236: the initializer found in the imported module, Absent if none
ExtractInitializer(m) ==
    CASE m = "function" -> "module"
      [] m = "default-function" -> "module.default"
      [] OTHER -> Absent

\* lines 228-237: the import has produced m (or failed); load settles (the
\* call is recorded with m as its argument)
Settle(m, op) ==
    /\ pluginInitializer' =
          IF m = "throws" THEN pluginInitializer
          ELSE IF ExtractInitializer(m) # Absent THEN ExtractInitializer(m)
          ELSE pluginInitializer
    /\ loadPc' = IF m # "throws" /\ ExtractInitializer(m) # Absent
                 THEN "loaded" ELSE "failed"
    /\ lastCall' = Call(op, <<m>>,
                        IF m = "throws" THEN "ImportFailed"
                        ELSE IF ExtractInitializer(m) = Absent THEN "NoInitializer"
                        ELSE "none", Absent)

\* a load that holds on to the context while it waits for the import
loadKeepsContextWhileImporting ==
    /\ pc = "constructed"
    /\ IF ~Truthy(loadContext)
       THEN \* line 187: the assertion fails
            /\ lastCall' = Call("load", <<>>, "IllegalState", Absent)
            /\ UNCHANGED <<loadContext, pluginInitializer, loadPc, imports, log>>
       ELSE /\ loadContext' = IF ~MissingEngine(loadContext) /\ isESM
                              THEN loadContext ELSE Undef
            /\ IF MissingEngine(loadContext)
               THEN /\ lastCall' = Call("load", <<>>, "MissingEngine", Absent)
                    /\ loadPc' = "failed"
                    /\ UNCHANGED <<pluginInitializer, imports, log>>
               ELSE /\ log' = log \cup GatingLog(loadContext)
                    /\ imports' = imports + 1
                    /\ IF isESM
                       THEN /\ loadPc' = "importing"
                            /\ lastCall' = Call("load", <<>>, "none", "pending")
                            /\ UNCHANGED pluginInitializer
                       ELSE \E m \in ModuleShapes : Settle(m, "load")
    /\ UNCHANGED <<pc, manifest, packageJSON, main, isESM, disabled,
                   registeredAccessories, registeredPlatforms, activeDynamicPlatforms,
                   invoked, assigned, handleVars>>

\* a load that leaves the context in place, so that a later load runs again
loadLeavesContext ==
    /\ pc = "constructed"
    /\ IF ~Truthy(loadContext)
       THEN \* line 187: the assertion fails
            /\ lastCall' = Call("load", <<>>, "IllegalState", Absent)
            /\ UNCHANGED <<loadContext, pluginInitializer, loadPc, imports, log>>
       ELSE /\ UNCHANGED loadContext
            /\ IF MissingEngine(loadContext)
               THEN /\ lastCall' = Call("load", <<>>, "MissingEngine", Absent)
                    /\ loadPc' = "failed"
                    /\ UNCHANGED <<pluginInitializer, imports, log>>
               ELSE /\ log' = log \cup GatingLog(loadContext)
                    /\ imports < MaxInvocations
                    /\ imports' = imports + 1
                    /\ IF isESM
                       THEN /\ loadPc' = "importing"
                            /\ lastCall' = Call("load", <<>>, "none", "pending")
                            /\ UNCHANGED pluginInitializer
                       ELSE \E m \in ModuleShapes : Settle(m, "load")
    /\ UNCHANGED <<pc, manifest, packageJSON, main, isESM, disabled,
                   registeredAccessories, registeredPlatforms, activeDynamicPlatforms,
                   invoked, assigned, handleVars>>

\* a load that gives the context up only once the version gate is passed
loadGateBeforeClearing ==
    /\ pc = "constructed"
    /\ IF ~Truthy(loadContext)
       THEN \* line 187: the assertion fails
            /\ lastCall' = Call("load", <<>>, "IllegalState", Absent)
            /\ UNCHANGED <<loadContext, pluginInitializer, loadPc, imports, log>>
       ELSE /\ loadContext' = IF MissingEngine(loadContext) THEN loadContext ELSE Undef
            /\ IF MissingEngine(loadContext)
               THEN /\ lastCall' = Call("load", <<>>, "MissingEngine", Absent)
                    /\ loadPc' = "failed"
                    /\ UNCHANGED <<pluginInitializer, imports, log>>
               ELSE /\ log' = log \cup GatingLog(loadContext)
                    /\ imports' = imports + 1
                    /\ IF isESM
                       THEN /\ loadPc' = "importing"
                            /\ lastCall' = Call("load", <<>>, "none", "pending")
                            /\ UNCHANGED pluginInitializer
                       ELSE \E m \in ModuleShapes : Settle(m, "load")
    /\ UNCHANGED <<pc, manifest, packageJSON, main, isESM, disabled,
                   registeredAccessories, registeredPlatforms, activeDynamicPlatforms,
                   invoked, assigned, handleVars>>

\* load(), up to its return or to the await of line 228
load ==
    /\ pc = "constructed"
    /\ IF ~Truthy(loadContext)
       THEN \* line 187: the assertion fails
            /\ lastCall' = Call("load", <<>>, "IllegalState", Absent)
            /\ UNCHANGED <<loadContext, pluginInitializer, loadPc, imports, log>>
       ELSE /\ loadContext' = Undef
            /\ IF MissingEngine(loadContext)
               THEN /\ lastCall' = Call("load", <<>>, "MissingEngine", Absent)
                    /\ loadPc' = "failed"
                    /\ UNCHANGED <<pluginInitializer, imports, log>>
               ELSE /\ log' = log \cup GatingLog(loadContext)
                    /\ imports' = imports + 1
                    /\ IF isESM
                       THEN /\ loadPc' = "importing"
                            /\ lastCall' = Call("load", <<>>, "none", "pending")
                            /\ UNCHANGED pluginInitializer
                       ELSE \E m \in ModuleShapes : Settle(m, "load")
    /\ UNCHANGED <<pc, manifest, packageJSON, main, isESM, disabled,
                   registeredAccessories, registeredPlatforms, activeDynamicPlatforms,
                   invoked, assigned, handleVars>>

\* the import() awaited at line 228 settles and load runs to its end
loadResume ==
    /\ loadPc = "importing"
    /\ \E m \in ModuleShapes : Settle(m, "load.resume")
    /\ UNCHANGED <<pc, manifest, packageJSON, main, isESM, loadContext, disabled,
                   registeredAccessories, registeredPlatforms, activeDynamicPlatforms,
                   imports, invoked, log, assigned, handleVars>>

\* a guard that only asks whether load was ever called
LoadNeverCalled == Truthy(loadContext)

\* line 240
NotLoadedYet == pluginInitializer = Absent

\* initialize(api): lines 239-245; the initializer returns or throws
initialize ==
    /\ pc = "constructed"
    /\ IF NotLoadedYet
       THEN /\ lastCall' = Call("initialize", <<>>, "NotLoadedYet", Absent)
            /\ UNCHANGED invoked
       ELSE /\ invoked < MaxInvocations
            /\ invoked' = invoked + 1
            /\ \E e \in {"none", "InitializerFailed"} :
                  lastCall' = Call("initialize", <<>>, e, pluginInitializer)
    /\ UNCHANGED <<pc, manifest, packageJSON, main, isESM, loadContext,
                   pluginInitializer, disabled, registeredAccessories,
                   registeredPlatforms, activeDynamicPlatforms, loadPc, imports, log,
                   assigned, handleVars>>


-----------------------------------------------------------------------------
(* The factory registries and the dynamic platform lists.                   *)
(* An identifier is the sequence of its dot-separated segments: <<"A">> is  *)
(* the bare name "A", <<"homebridge-x", "A">> is "homebridge-x.A".  A list  *)
(* of activeDynamicPlatforms is <<>> for a name the map has no entry for    *)
(* (an entry is created and filled in the same call, lines 169-176).        *)

MaxAssign == 2

Identifiers == Names \cup {<<"homebridge-x", "A">>}
Constructors == {"ctor1", "ctor2"}
Instances == {"x1", "x2"}

\* PluginManager.getAccessoryName / getPlatformName: the bare name of an
\* identifier (the identifier itself when it has no dot)
getAccessoryName(identifier) ==
    IF Len(identifier) = 1 THEN identifier ELSE <<identifier[2]>>
getPlatformName(identifier) ==
    IF Len(identifier) = 1 THEN identifier ELSE <<identifier[2]>>

\* Map.get(key) on a registry: Absent for a key the map does not hold
MapGet(map, key) == IF key \in DOMAIN map THEN map[key] ELSE Absent

\* Map.get(key) on activeDynamicPlatforms
ListGet(map, key) == IF key \in DOMAIN map THEN map[key] ELSE <<>>

registryUnchanged ==
    UNCHANGED <<pc, manifest, packageJSON, main, isESM, loadContext,
                pluginInitializer, loadPc, imports, invoked, handleVars>>

\* a registration that overwrites an earlier one
registerAccessoryOverwrites ==
    /\ pc = "constructed"
    /\ \E name \in Names, constructor \in Constructors :
          /\ registeredAccessories' = [registeredAccessories EXCEPT ![name] = constructor]
          /\ log' = IF disabled THEN log ELSE log \cup {"register-accessory"}
          /\ lastCall' = Call("registerAccessory", <<name, constructor>>, "none", Absent)
    /\ UNCHANGED <<disabled, registeredPlatforms, activeDynamicPlatforms, assigned>>
    /\ registryUnchanged

\* registerAccessory(name, constructor): lines 114-124
registerAccessory ==
    /\ pc = "constructed"
    /\ \E name \in Names, constructor \in Constructors :
          IF registeredAccessories[name] # Absent
          THEN /\ lastCall' = Call("registerAccessory", <<name, constructor>>,
                                   "AlreadyRegistered", Absent)
               /\ UNCHANGED <<registeredAccessories, log>>
          ELSE /\ log' = IF disabled THEN log ELSE log \cup {"register-accessory"}
               /\ registeredAccessories' =
                     [registeredAccessories EXCEPT ![name] = constructor]
               /\ lastCall' = Call("registerAccessory", <<name, constructor>>,
                                   "none", Absent)
    /\ UNCHANGED <<disabled, registeredPlatforms, activeDynamicPlatforms, assigned>>
    /\ registryUnchanged

\* a registration that a disabled plugin does not perform
registerPlatformUnlessDisabled ==
    /\ pc = "constructed"
    /\ \E name \in Names, constructor \in Constructors :
          IF registeredPlatforms[name] # Absent
          THEN /\ lastCall' = Call("registerPlatform", <<name, constructor>>,
                                   "AlreadyRegistered", Absent)
               /\ UNCHANGED <<registeredPlatforms, log>>
          ELSE /\ log' = IF disabled THEN log ELSE log \cup {"register-platform"}
               /\ registeredPlatforms' =
                     IF disabled THEN registeredPlatforms
                     ELSE [registeredPlatforms EXCEPT ![name] = constructor]
               /\ lastCall' = Call("registerPlatform", <<name, constructor>>,
                                   "none", Absent)
    /\ UNCHANGED <<disabled, registeredAccessories, activeDynamicPlatforms, assigned>>
    /\ registryUnchanged

\* registerPlatform(name, constructor): lines 126-136
registerPlatform ==
    /\ pc = "constructed"
    /\ \E name \in Names, constructor \in Constructors :
          IF registeredPlatforms[name] # Absent
          THEN /\ lastCall' = Call("registerPlatform", <<name, constructor>>,
                                   "AlreadyRegistered", Absent)
               /\ UNCHANGED <<registeredPlatforms, log>>
          ELSE /\ log' = IF disabled THEN log ELSE log \cup {"register-platform"}
               /\ registeredPlatforms' =
                     [registeredPlatforms EXCEPT ![name] = constructor]
               /\ lastCall' = Call("registerPlatform", <<name, constructor>>,
                                   "none", Absent)
    /\ UNCHANGED <<disabled, registeredAccessories, activeDynamicPlatforms, assigned>>
    /\ registryUnchanged

\* a lookup that takes its identifier as the name
getAccessoryConstructorAsGiven ==
    /\ pc = "constructed"
    /\ \E accessoryIdentifier \in Identifiers :
          LET constructor == MapGet(registeredAccessories, accessoryIdentifier)
          IN  lastCall' = Call("getAccessoryConstructor", <<accessoryIdentifier>>,
                               IF constructor = Absent THEN "NotRegistered" ELSE "none",
                               constructor)
    /\ UNCHANGED <<disabled, registeredAccessories, registeredPlatforms,
                   activeDynamicPlatforms, log, assigned>>
    /\ registryUnchanged

\* getAccessoryConstructor(accessoryIdentifier): lines 138-147
getAccessoryConstructor ==
    /\ pc = "constructed"
    /\ \E accessoryIdentifier \in Identifiers :
          LET name == getAccessoryName(accessoryIdentifier)
              constructor == MapGet(registeredAccessories, name)
          IN  lastCall' = Call("getAccessoryConstructor", <<accessoryIdentifier>>,
                               IF constructor = Absent THEN "NotRegistered" ELSE "none",
                               constructor)
    /\ UNCHANGED <<disabled, registeredAccessories, registeredPlatforms,
                   activeDynamicPlatforms, log, assigned>>
    /\ registryUnchanged

\* getPlatformConstructor(platformIdentifier): lines 149-163
getPlatformConstructor ==
    /\ pc = "constructed"
    /\ \E platformIdentifier \in Identifiers :
          LET name == getPlatformName(platformIdentifier)
              constructor == MapGet(registeredPlatforms, name)
          IN  /\ lastCall' = Call("getPlatformConstructor", <<platformIdentifier>>,
                                  IF constructor = Absent THEN "NotRegistered" ELSE "none",
                                  constructor)
              /\ log' = IF constructor # Absent
                           /\ ListGet(activeDynamicPlatforms, name) # <<>>
                        THEN log \cup {"dynamic-platform-multiple"} ELSE log
    /\ UNCHANGED <<disabled, registeredAccessories, registeredPlatforms,
                   activeDynamicPlatforms, assigned>>
    /\ registryUnchanged

\* an assignment that appends instead of prepending
assignDynamicPlatformAppends ==
    /\ pc = "constructed"
    /\ Len(assigned) < MaxAssign
    /\ \E platformIdentifier \in Identifiers, platformPlugin \in Instances :
          LET name == getPlatformName(platformIdentifier) IN
          /\ activeDynamicPlatforms' =
                [activeDynamicPlatforms EXCEPT ![name] = Append(@, platformPlugin)]
          /\ assigned' = Append(assigned, <<platformIdentifier, platformPlugin>>)
          /\ lastCall' = Call("assignDynamicPlatform",
                              <<platformIdentifier, platformPlugin>>, "none", Absent)
    /\ UNCHANGED <<disabled, registeredAccessories, registeredPlatforms, log>>
    /\ registryUnchanged

\* assignDynamicPlatform(platformIdentifier, platformPlugin): lines 165-177
assignDynamicPlatform ==
    /\ pc = "constructed"
    /\ Len(assigned) < MaxAssign
    /\ \E platformIdentifier \in Identifiers, platformPlugin \in Instances :
          LET name == getPlatformName(platformIdentifier) IN
          /\ activeDynamicPlatforms' =
                [activeDynamicPlatforms EXCEPT ![name] = <<platformPlugin>> \o @]
          /\ assigned' = Append(assigned, <<platformIdentifier, platformPlugin>>)
          /\ lastCall' = Call("assignDynamicPlatform",
                              <<platformIdentifier, platformPlugin>>, "none", Absent)
    /\ UNCHANGED <<disabled, registeredAccessories, registeredPlatforms, log>>
    /\ registryUnchanged

\* lines 180-182: platforms && platforms[0]
ActiveDynamicPlatform(platformName) ==
    LET platforms == ListGet(activeDynamicPlatforms, platformName) IN
    IF platforms = <<>> THEN Absent ELSE platforms[1]

\* getActiveDynamicPlatform(platformName): lines 179-183
getActiveDynamicPlatform ==
    /\ pc = "constructed"
    /\ \E platformName \in Identifiers :
          lastCall' = Call("getActiveDynamicPlatform", <<platformName>>, "none",
                           ActiveDynamicPlatform(platformName))
    /\ UNCHANGED <<disabled, registeredAccessories, registeredPlatforms,
                   activeDynamicPlatforms, log, assigned>>
    /\ registryUnchanged

\* the host sets or clears plugin.disabled (line 37)
setDisabled ==
    /\ pc = "constructed"
    /\ \E b \in BOOLEAN :
          /\ disabled' = b
          /\ lastCall' = Call("setDisabled", <<>>, "none", Absent)
    /\ UNCHANGED <<registeredAccessories, registeredPlatforms,
                   activeDynamicPlatforms, log, assigned>>
    /\ registryUnchanged

-----------------------------------------------------------------------------
(* The platform accessories (platformAccessory.ts) and their delegates, the *)
(* hap Accessory objects.  Objects are referred to by their index in        *)
(* `handles` and `accessories`.                                             *)

MaxHandles == 2
MaxListeners == 1

\* no object (undefined) where a reference is expected
NoRef == 0

\* the names handles are constructed with; updateDisplayName may give another
DisplayNames == {"Lamp"}
NewNames == {"Lamp", "Fan", ""}
UUIDs == {"uuid-1"}
\* the category argument of the constructor, when one is given
Categories == {"LIGHTBULB"}
Contexts == {"{}", "{foo:bar}"}
PluginIds == {"homebridge-x"}
PlatformNames == {"PlatformY"}
ExtraServices == {"Lightbulb"}

\* new Accessory(displayName, UUID) of hap-nodejs: category OTHER, the
\* information service, no identify listener yet
NewAccessory(displayName, uuid) ==
    [displayName |-> displayName, UUID |-> uuid, category |-> "OTHER",
     services |-> <<"AccessoryInformation">>, identify |-> <<>>]

\* a constructor that keeps the category to itself
PlatformAccessoryConstructorOwnCategory(accs, injected, displayName, uuid, category, self) ==
    LET ref == IF injected # NoRef THEN injected ELSE Len(accs) + 1
        accs1 == IF injected # NoRef THEN accs
                 ELSE Append(accs, NewAccessory(displayName, uuid))
        accs3 == [accs1 EXCEPT ![ref].identify = Append(@, self)]
    IN  [accessories |-> accs3,
         handle |-> [hap |-> ref,
                     displayName |-> accs1[ref].displayName,
                     UUID |-> accs1[ref].UUID,
                     category |-> IF category # Absent THEN category ELSE "OTHER",
                     services |-> ref,
                     context |-> "{}",
                     plugin |-> Absent,
                     platform |-> Absent,
                     listeners |-> <<>>]]

\* new PlatformAccessory(displayName, uuid, category?) run with the static
\* slot holding `injected`, as the handle number `self`: lines 68-91.
\* Yields the accessories after it and the new handle.
PlatformAccessoryConstructor(accs, injected, displayName, uuid, category, self) ==
    LET ref == IF injected # NoRef THEN injected ELSE Len(accs) + 1
        accs1 == IF injected # NoRef THEN accs
                 ELSE Append(accs, NewAccessory(displayName, uuid))
        accs2 == IF category # Absent
                 THEN [accs1 EXCEPT ![ref].category = category] ELSE accs1
        accs3 == [accs2 EXCEPT ![ref].identify = Append(@, self)]
    IN  [accessories |-> accs3,
         handle |-> [hap |-> ref,
                     displayName |-> accs2[ref].displayName,
                     UUID |-> accs2[ref].UUID,
                     category |-> IF category # Absent THEN category ELSE "OTHER",
                     services |-> ref,
                     context |-> "{}",
                     plugin |-> Absent,
                     platform |-> Absent,
                     listeners |-> <<>>]]

HandleFieldsInit ==
    /\ accessories = <<>>
    /\ handles = <<>>
    /\ injectedAccessory = NoRef


handleUnchanged == UNCHANGED pluginVars

Refs(seq) == 1..Len(seq)

\* new PlatformAccessory(displayName, uuid, category?) called by plugin code
construct ==
    /\ Len(handles) < MaxHandles
    /\ \E displayName \in DisplayNames, uuid \in UUIDs,
          category \in Categories \cup {Absent} :
          LET self == Len(handles) + 1
              r == PlatformAccessoryConstructor(accessories, injectedAccessory,
                                                displayName, uuid, category, self)
          IN  /\ accessories' = r.accessories
              /\ handles' = Append(handles, r.handle)
              /\ lastCall' = Call("new", <<displayName, uuid, category>>, "none", self)
    /\ UNCHANGED injectedAccessory
    /\ handleUnchanged

\* a rename that forgets the handle's own field
updateDisplayNameDelegateOnly ==
    /\ \E h \in Refs(handles), name \in NewNames :
          /\ IF name # ""
             THEN accessories' = [accessories EXCEPT ![handles[h].hap].displayName = name]
             ELSE UNCHANGED accessories
          /\ lastCall' = [Call("updateDisplayName", <<h, name>>, "none", Absent)
                             EXCEPT !.before = handles[h].displayName]
    /\ UNCHANGED <<handles, injectedAccessory>>
    /\ handleUnchanged

\* a rename that does not test its argument
updateDisplayNameUnguarded ==
    /\ \E h \in Refs(handles), name \in NewNames :
          /\ handles' = [handles EXCEPT ![h].displayName = name]
          /\ accessories' = [accessories EXCEPT ![handles[h].hap].displayName = name]
          /\ lastCall' = [Call("updateDisplayName", <<h, name>>, "none", Absent)
                             EXCEPT !.before = handles[h].displayName]
    /\ UNCHANGED injectedAccessory
    /\ handleUnchanged

\* updateDisplayName(name): lines 93-98
updateDisplayName ==
    /\ \E h \in Refs(handles), name \in NewNames :
          /\ IF name # ""
             THEN /\ handles' = [handles EXCEPT ![h].displayName = name]
                  /\ accessories' =
                        [accessories EXCEPT ![handles[h].hap].displayName = name]
             ELSE UNCHANGED <<handles, accessories>>
          /\ lastCall' = [Call("updateDisplayName", <<h, name>>, "none", Absent)
                             EXCEPT !.before = handles[h].displayName]
    /\ UNCHANGED injectedAccessory
    /\ handleUnchanged

InSeq(x, seq) == \E i \in Refs(seq) : seq[i] = x

RECURSIVE Without(_, _)
Without(seq, x) ==
    IF seq = <<>> THEN <<>>
    ELSE IF Head(seq) = x THEN Tail(seq)
    ELSE <<Head(seq)>> \o Without(Tail(seq), x)

\* addService(service): lines 100-107, forwarded to the delegate, which
\* refuses a service it already has
addService ==
    /\ \E h \in Refs(handles), service \in ExtraServices :
          LET a == handles[h].hap IN
          IF InSeq(service, accessories[a].services)
          THEN /\ lastCall' = Call("addService", <<h, service>>, "DuplicateService", Absent)
               /\ UNCHANGED accessories
          ELSE /\ accessories' = [accessories EXCEPT ![a].services = Append(@, service)]
               /\ lastCall' = Call("addService", <<h, service>>, "none", service)
    /\ UNCHANGED <<handles, injectedAccessory>>
    /\ handleUnchanged

\* removeService(service): lines 109-111, forwarded to the delegate
removeService ==
    /\ \E h \in Refs(handles), service \in ExtraServices :
          LET a == handles[h].hap IN
          /\ accessories' = [accessories EXCEPT ![a].services = Without(@, service)]
          /\ lastCall' = Call("removeService", <<h, service>>, "none", Absent)
    /\ UNCHANGED <<handles, injectedAccessory>>
    /\ handleUnchanged

\* the host registers the handle with a platform: it sets _associatedPlugin
\* and _associatedPlatform (lines 47-48)
tag ==
    /\ \E h \in Refs(handles), plugin \in PluginIds, platform \in PlatformNames :
          /\ handles' = [handles EXCEPT ![h].plugin = plugin, ![h].platform = platform]
          /\ lastCall' = Call("tag", <<h, plugin, platform>>, "none", Absent)
    /\ UNCHANGED <<accessories, injectedAccessory>>
    /\ handleUnchanged

\* plugin code stores data in accessory.context (line 66)
setContext ==
    /\ \E h \in Refs(handles), context \in Contexts :
          /\ handles' = [handles EXCEPT ![h].context = context]
          /\ lastCall' = Call("setContext", <<h, context>>, "none", Absent)
    /\ UNCHANGED <<accessories, injectedAccessory>>
    /\ handleUnchanged

\* on("identify", listener) with a listener that returns or throws
on ==
    /\ \E h \in Refs(handles), listener \in {"returns", "throws"} :
          /\ Len(handles[h].listeners) < MaxListeners
          /\ handles' = [handles EXCEPT ![h].listeners = Append(@, listener)]
          /\ lastCall' = Call("on", <<h, listener>>, "none", Absent)
    /\ UNCHANGED <<accessories, injectedAccessory>>
    /\ handleUnchanged

RECURSIVE EmitTrace(_)
\* EventEmitter.emit: the listeners run in order; a listener that throws ends
\* the emit, its exception propagating to the caller
EmitTrace(listeners) ==
    IF listeners = <<>> THEN <<>>
    ELSE IF Head(listeners) = "throws" THEN <<"listener-threw">>
    ELSE <<"listener-returned">> \o EmitTrace(Tail(listeners))

Threw(trace) == trace # <<>> /\ trace[Len(trace)] = "listener-threw"

\* the forwarding listener of lines 84-90, run for handle h
Forward(h) ==
    LET t == EmitTrace(handles[h].listeners) IN
    IF Threw(t) THEN t ELSE t \o <<"callback">>

RECURSIVE NotifyTrace(_)
\* the delegate emits identify to the forwarding listeners attached to it
NotifyTrace(forwarders) ==
    IF forwarders = <<>> THEN <<>>
    ELSE LET t == Forward(Head(forwarders)) IN
         IF Threw(t) THEN t ELSE t \o NotifyTrace(Tail(forwarders))

\* the delegate of a handle raises identify(paired, callback)
identify ==
    /\ \E h \in Refs(handles) :
          LET t == NotifyTrace(accessories[handles[h].hap].identify) IN
          lastCall' = Call("identify", <<h>>,
                           IF Threw(t) THEN "ListenerThrew" ELSE "none", t)
    /\ UNCHANGED <<accessories, handles, injectedAccessory>>
    /\ handleUnchanged

\* Accessory.serialize of hap-nodejs: the delegate's fields
AccessorySerialize(acc) ==
    [displayName |-> acc.displayName, UUID |-> acc.UUID, category |-> acc.category,
     services |-> acc.services]

\* Accessory.deserialize of hap-nodejs builds the delegate with
\* new Accessory(json.displayName, json.UUID), which throws on an empty name
AccessoryDeserializeThrows(json) == json.displayName = ""

\* Accessory.deserialize of hap-nodejs
AccessoryDeserialize(json) ==
    [displayName |-> json.displayName, UUID |-> json.UUID, category |-> json.category,
     services |-> json.services, identify |-> <<>>]

\* { ...a, ...b }: the keys of both, b's value where both have the key
Spread(a, b) ==
    [k \in DOMAIN a \cup DOMAIN b |-> IF k \in DOMAIN b THEN b[k] ELSE a[k]]

\* own fields that take the platform from the plugin field
OwnFieldsPluginTwice(accessory) ==
    [plugin |-> accessory.plugin, platform |-> accessory.plugin,
     context |-> accessory.context]

\* lines 173-175
OwnFields(accessory) ==
    [plugin |-> accessory.plugin, platform |-> accessory.platform,
     context |-> accessory.context]

\* lines 171-177: the record serialize returns for a handle, given the
\* accessories after line 171
SerializeRecord(accessory, accs) ==
    Spread(OwnFields(accessory), AccessorySerialize(accs[accessory.hap]))

\* PlatformAccessory.serialize(accessory): lines 170-178
serialize ==
    /\ \E h \in Refs(handles) :
          LET accs == [accessories EXCEPT
                          ![handles[h].hap].displayName = handles[h].displayName]
          IN  /\ accessories' = accs
              /\ lastCall' = Call("serialize", <<h>>, "none",
                                  SerializeRecord(handles[h], accs))
    /\ UNCHANGED <<handles, injectedAccessory>>
    /\ handleUnchanged

\* the persisted records deserialize is given, some of them without a name
Records ==
    {Spread([plugin |-> p, platform |-> q, context |-> c],
            [displayName |-> n, UUID |-> u, category |-> k,
             services |-> <<"AccessoryInformation">>]) :
        p \in PluginIds, q \in PlatformNames, c \in Contexts,
        n \in NewNames, u \in UUIDs, k \in Categories \cup {"OTHER"}}

\* a deserialize that leaves the injected delegate in the static slot
deserializeKeepsInjected ==
    /\ Len(handles) < MaxHandles
    /\ \E json \in Records :
          IF AccessoryDeserializeThrows(json)
          THEN /\ lastCall' = Call("deserialize", <<json>>, "DeserializeFailed", Absent)
               /\ UNCHANGED <<accessories, handles, injectedAccessory>>
          ELSE LET self == Len(handles) + 1
                   accs == Append(accessories, AccessoryDeserialize(json))
                   accessory == Len(accs)
                   r == PlatformAccessoryConstructor(accs, accessory,
                                                     accs[accessory].displayName,
                                                     accs[accessory].UUID, Absent, self)
               IN  /\ accessories' = r.accessories
                   /\ injectedAccessory' = accessory
                   /\ handles' = Append(handles,
                                        [r.handle EXCEPT !.plugin = json.plugin,
                                                         !.platform = json.platform,
                                                         !.context = json.context,
                                                         !.category = json.category])
                   /\ lastCall' = Call("deserialize", <<json>>, "none", self)
    /\ handleUnchanged

\* PlatformAccessory.deserialize(json): lines 180-193.  Line 181 throws before
\* the slot is written; lines 183-185 set the slot, run the constructor and
\* clear the slot, with nothing in between that suspends or throws.
deserialize ==
    /\ Len(handles) < MaxHandles
    /\ \E json \in Records :
          IF AccessoryDeserializeThrows(json)
          THEN /\ lastCall' = Call("deserialize", <<json>>, "DeserializeFailed", Absent)
               /\ UNCHANGED <<accessories, handles, injectedAccessory>>
          ELSE LET self == Len(handles) + 1
                   accs == Append(accessories, AccessoryDeserialize(json))
                   accessory == Len(accs)
                   r == PlatformAccessoryConstructor(accs, accessory,
                                                     accs[accessory].displayName,
                                                     accs[accessory].UUID, Absent, self)
               IN  /\ accessories' = r.accessories
                   /\ injectedAccessory' = NoRef
                   /\ handles' = Append(handles,
                                        [r.handle EXCEPT !.plugin = json.plugin,
                                                         !.platform = json.platform,
                                                         !.context = json.context,
                                                         !.category = json.category])
                   /\ lastCall' = Call("deserialize", <<json>>, "none", self)
    /\ handleUnchanged

-----------------------------------------------------------------------------
(* Specifications.                                                          *)

\* construction over the shapes of exports and main
InitManifest ==
    /\ manifest \in EntryManifests
    /\ packageJSON = manifest
    /\ PluginFieldsInit
    /\ HandleFieldsInit
NextManifest == PluginConstructor
SpecManifest == InitManifest /\ [][NextManifest]_vars

\* the registries of a descriptor constructed from a plain manifest
PlainManifest ==
    Manifest(Undef, Str("./main.js"), Undef, Obj([homebridge |-> Str("^1.6.0")]),
             Undef, Undef)
InitRegistry ==
    /\ manifest = PlainManifest
    /\ packageJSON = manifest
    /\ PluginFieldsInit
    /\ HandleFieldsInit
NextRegistry ==
    \/ PluginConstructor
    \/ registerAccessory
    \/ registerPlatform
    \/ getAccessoryConstructor
    \/ getPlatformConstructor
    \/ setDisabled
SpecRegistry == InitRegistry /\ [][NextRegistry]_vars

\* the dynamic platform lists of that descriptor, with the platform registry
NextDynamic ==
    \/ PluginConstructor
    \/ registerPlatform
    \/ getPlatformConstructor
    \/ assignDynamicPlatform
    \/ getActiveDynamicPlatform
SpecDynamic == InitRegistry /\ [][NextDynamic]_vars

\* the lookups of that descriptor, with all they could read or write
NextLookup ==
    \/ PluginConstructor
    \/ registerAccessory
    \/ registerPlatform
    \/ assignDynamicPlatform
    \/ getAccessoryConstructor
    \/ getPlatformConstructor
SpecLookup == InitRegistry /\ [][NextLookup]_vars

\* construction, load and initialize over the shapes of the gated fields
InitLoad ==
    /\ manifest \in GatingManifests
    /\ packageJSON = manifest
    /\ PluginFieldsInit
    /\ HandleFieldsInit
NextLoad == PluginConstructor \/ load \/ loadResume \/ initialize
SpecLoad == InitLoad /\ [][NextLoad]_vars



\* the accessory handles
InitHandle ==
    /\ manifest = PlainManifest
    /\ packageJSON = manifest
    /\ PluginFieldsInit
    /\ HandleFieldsInit
NextHandle ==
    \/ construct
    \/ updateDisplayName
    \/ tag
    \/ setContext
    \/ serialize
    \/ deserialize
SpecHandle == InitHandle /\ [][NextHandle]_vars

\* what the handles forward to and from their delegates
NextForward ==
    \/ construct
    \/ addService
    \/ removeService
    \/ on
    \/ identify
SpecForward == InitHandle /\ [][NextForward]_vars

\* the handles as mirrors of their delegates
NextMirror ==
    \/ construct
    \/ deserialize
    \/ updateDisplayName
    \/ addService
    \/ removeService
    \/ serialize
SpecMirror == InitHandle /\ [][NextMirror]_vars

\* the two ways a handle comes to be, and the static slot between them
NextInject ==
    \/ construct
    \/ deserialize
SpecInject == InitHandle /\ [][NextInject]_vars

-----------------------------------------------------------------------------
(* Properties of load and initialize (SpecLoad).                            *)

\* o.k where o may be undefined (for reading a manifest from outside the code)
Field(o, k) == IF o.t = "object" THEN Get(o, k) ELSE Undef

\* C1: the initializer is invoked by initialize only once a load call has
\* completed successfully; initialize before any load, while load is suspended
\* on the import, or after a load that failed raises the not-loaded-yet error
\* and invokes nothing.
C1_InitializeOnlyAfterLoad ==
    [][/\ invoked' # invoked => loadPc = "loaded" /\ lastCall'.op = "initialize"
       /\ lastCall'.op = "initialize" =>
            IF loadPc = "loaded"
            THEN invoked' = invoked + 1 /\ lastCall'.err # "NotLoadedYet"
            ELSE invoked' = invoked /\ lastCall'.err = "NotLoadedYet"]_vars

\* initialize was refused while load was suspended on its import
C1_Witness ==
    /\ loadPc = "importing"
    /\ lastCall.op = "initialize"
    /\ lastCall.err = "NotLoadedYet"

\* the manifest declares no usable host-version requirement
NoHostRequirement(pj) ==
    /\ ~Truthy(Field(pj.engines, "homebridge"))
    /\ ~Truthy(Field(pj.peerDependencies, "homebridge"))

\* C2: for a manifest with no engines.homebridge and no usable
\* peerDependencies.homebridge, every load fails with an error, no module
\* import is ever attempted and the initializer stays absent.
C2_NoEngineNoImport ==
    (pc = "constructed" /\ NoHostRequirement(manifest)) =>
        /\ imports = 0
        /\ pluginInitializer = Absent
        /\ loadPc \in {"idle", "failed"}
        /\ lastCall.op = "load" => lastCall.err \in {"MissingEngine", "IllegalState"}

\* load failed on a manifest with an engines table and a peerDependencies
\* table, neither of which names homebridge
C2_Witness ==
    /\ NoHostRequirement(manifest)
    /\ Truthy(manifest.engines)
    /\ Truthy(manifest.peerDependencies)
    /\ lastCall.op = "load"
    /\ lastCall.err = "MissingEngine"
    /\ loadPc = "failed"

Loads == {"load", "load.resume"}

\* the non-fatal conditions a manifest meets, read from the manifest as the
\* constructor left it
NonFatal(pj) ==
    LET required == Field(pj.engines, "homebridge")
        node == Field(pj.engines, "node")
    IN  (IF required.t = "string" /\ required.s \notin HostSatisfied
         THEN {"host-version"} ELSE {})
        \cup (IF node.t = "string" /\ node.s \notin NodeSatisfied
              THEN {"node-version"} ELSE {})
        \cup (IF \/ Truthy(Field(pj.dependencies, "homebridge"))
                 \/ Truthy(Field(pj.dependencies, "hap-nodejs"))
              THEN {"bundled-dependency"} ELSE {})

\* C14 as stated: with engines.homebridge present the first load imports the
\* entry module whatever the non-fatal conditions, and succeeds when the
\* module has an invocable export; a load fails only for a missing
\* host-version declaration or a module without an invocable export.
C14_OnlyTwoFatalOutcomes ==
    /\ (/\ pc = "constructed"
        /\ Field(packageJSON.engines, "homebridge").t # "undefined"
        /\ loadPc # "idle") => imports = 1
    /\ (lastCall.op \in Loads /\ lastCall.arg # <<>>
        /\ lastCall.arg[1] \in {"function", "default-function"}) =>
          lastCall.err = "none" /\ loadPc = "loaded" /\ pluginInitializer # Absent
    /\ (lastCall.op \in Loads /\ lastCall.err # "none") =>
          lastCall.err \in {"MissingEngine", "NoInitializer"}

\* C14, amended: with a non-empty engines.homebridge the first load logs the
\* non-fatal conditions the manifest meets, imports the entry module whatever
\* they are, and succeeds with the initializer set exactly when the module
\* has an invocable export; a load fails only by the illegal-state assertion
\* (a load after the first), for a missing or empty host-version declaration,
\* for an import that itself fails, or for a module without an invocable
\* export.
C14_NonFatalNeverAborts ==
    /\ (/\ pc = "constructed"
        /\ Truthy(Field(packageJSON.engines, "homebridge"))
        /\ loadPc # "idle") =>
          /\ imports = 1
          /\ NonFatal(packageJSON) \subseteq log
    /\ (lastCall.op \in Loads /\ lastCall.arg # <<>>) =>
          IF lastCall.arg[1] \in {"function", "default-function"}
          THEN lastCall.err = "none" /\ loadPc = "loaded" /\ pluginInitializer # Absent
          ELSE /\ lastCall.err = IF lastCall.arg[1] = "throws" THEN "ImportFailed"
                                 ELSE "NoInitializer"
               /\ loadPc = "failed"
               /\ pluginInitializer = Absent
    /\ (lastCall.op \in Loads /\ lastCall.err # "none") =>
          /\ lastCall.err \in {"IllegalState", "MissingEngine", "ImportFailed",
                               "NoInitializer"}
          /\ lastCall.err = "MissingEngine" =>
                ~Truthy(Field(packageJSON.engines, "homebridge")) /\ imports = 0

\* a load that met all three non-fatal conditions and succeeded
C14_Witness ==
    /\ NonFatal(packageJSON) = {"host-version", "node-version", "bundled-dependency"}
    /\ log = {"host-version", "node-version", "bundled-dependency"}
    /\ lastCall.op \in Loads
    /\ lastCall.err = "none"
    /\ loadPc = "loaded"
    /\ pluginInitializer # Absent

\* C15: the constructor leaves a load context; it stays until a load call,
\* the first, takes it, and is absent from then on, however that load ends
\* and while it waits for its import; the gating checks and the import read
\* it only in the step that takes it.
C15_ContextConsumedOnce ==
    [][/\ (pc = "new" /\ pc' = "constructed") => Truthy(loadContext')
       /\ (pc = "constructed" /\ loadContext' # loadContext) =>
             /\ lastCall'.op = "load"
             /\ lastCall'.err # "IllegalState"
             /\ loadPc = "idle"
             /\ ~Truthy(loadContext')
       /\ (pc = "constructed" /\ lastCall'.op = "load") => ~Truthy(loadContext')
       /\ (pc = "constructed" /\ loadPc' # "idle") => ~Truthy(loadContext')
       /\ (log' # log \/ imports' # imports) =>
             Truthy(loadContext) /\ ~Truthy(loadContext')]_vars

\* a second load found the context gone while the first was still waiting
\* for its import
C15_Witness ==
    /\ loadPc = "importing"
    /\ ~Truthy(loadContext)
    /\ imports = 1
    /\ lastCall.op = "load"
    /\ lastCall.err = "IllegalState"

\* C16: the initializer is absent until a load completes successfully; the
\* step that sets it is the end of the one load that passed the assertion,
\* and once set it never changes, whatever load and initialize calls follow
\* or overlap.
C16_InitializerSetOnce ==
    [][/\ pluginInitializer' # pluginInitializer =>
             /\ pluginInitializer = Absent
             /\ loadPc \in {"idle", "importing"}
             /\ loadPc' = "loaded"
             /\ lastCall'.op \in Loads
             /\ lastCall'.err = "none"
             /\ imports' = 1
       /\ loadPc' # "loaded" => pluginInitializer' = Absent
       /\ loadPc = "loaded" => loadPc' = "loaded"]_vars

\* the initializer was set by the resumption of a load that had waited for
\* its import; an initialize has run it and a later load was refused, leaving
\* it in place
C16_Witness ==
    /\ pluginInitializer = "module.default"
    /\ isESM
    /\ imports = 1
    /\ invoked = 1
    /\ lastCall.op = "load"
    /\ lastCall.err = "IllegalState"

\* the manifest declares a host range as a peer dependency and no
\* engines.homebridge
PeerOnly(pj) ==
    /\ Truthy(Field(pj.peerDependencies, "homebridge"))
    /\ ~Truthy(Field(pj.engines, "homebridge"))

\* the manifest that declares the peer range of pj as its engines.homebridge
Twin(pj) ==
    LET R == Field(pj.peerDependencies, "homebridge") IN
    [pj EXCEPT !.engines =
        IF pj.engines.t = "object"
        THEN Obj([k \in DOMAIN pj.engines.f |->
                    IF k = "homebridge" THEN R ELSE pj.engines.f[k]])
        ELSE Obj([k \in {"homebridge"} |-> R])]

\* C17: a descriptor whose manifest declares peerDependencies.homebridge = R
\* and no engines.homebridge is constructed with the load context of the
\* manifest that declares engines.homebridge = R, and its load passes the
\* missing-declaration check, checks the host version against R and imports
\* the entry module.
C17_PeerRangeActsAsEngine ==
    (pc = "constructed" /\ PeerOnly(manifest)) =>
        LET R == Field(manifest.peerDependencies, "homebridge") IN
        /\ Field(Twin(manifest).engines, "homebridge") = R
        /\ loadPc = "idle" =>
              /\ loadContext = LoadContextOf(Twin(manifest))
              /\ Get(Get(loadContext, "engines"), "homebridge") = R
              /\ Get(loadContext, "dependencies") = manifest.dependencies
        /\ loadPc # "idle" =>
              /\ imports = 1
              /\ "host-version" \in log <=> R.s \notin HostSatisfied
        /\ lastCall.op \in Loads => lastCall.err # "MissingEngine"

\* a manifest with an engines table that only names node and a peer range
\* the host does not satisfy: load went through, with the host-version message
C17_Witness ==
    /\ manifest.engines.t = "object"
    /\ Get(manifest.engines, "homebridge") = Undef
    /\ Get(manifest.engines, "node") = Str(">=18")
    /\ Field(manifest.peerDependencies, "homebridge") = Str("^2.0.0")
    /\ loadPc = "loaded"
    /\ log = {"host-version"}
    /\ lastCall.op \in Loads

\* the errors of a load that got past the assertion and then failed
FatalErrors == {"MissingEngine", "ImportFailed", "NoInitializer"}

\* C20: the first load call of a descriptor is not refused by the assertion
\* and every later one is, before it logs, imports or writes anything; the
\* load that took the context fails only with a fatal error, and from then on
\* the descriptor stays failed, its initializer stays absent, initialize is
\* refused and no initializer is invoked.
C20_FailedLoadIsPermanent ==
    [][/\ (pc = "constructed" /\ lastCall'.op = "load") =>
             IF loadPc = "idle"
             THEN lastCall'.err # "IllegalState" /\ loadPc' # "idle"
             ELSE /\ lastCall'.err = "IllegalState"
                  /\ UNCHANGED <<loadContext, log, imports, pluginInitializer,
                                 loadPc, invoked>>
       /\ (loadPc # "failed" /\ loadPc' = "failed") =>
             lastCall'.op \in Loads /\ lastCall'.err \in FatalErrors
       /\ loadPc = "failed" =>
             /\ loadPc' = "failed"
             /\ pluginInitializer' = Absent
             /\ invoked' = 0
             /\ imports' = imports
             /\ lastCall'.op = "initialize" => lastCall'.err = "NotLoadedYet"]_vars

\* a load got as far as its import and failed; a later load was refused by
\* the assertion
C20_Witness ==
    /\ loadPc = "failed"
    /\ imports = 1
    /\ pluginInitializer = Absent
    /\ invoked = 0
    /\ lastCall.op = "load"
    /\ lastCall.err = "IllegalState"

-----------------------------------------------------------------------------
(* Properties of the entry-point resolution (SpecManifest).                 *)

\* C9 as stated: whenever exports is a string, the entry point is that string.
C9_StringExportsIsEntry ==
    (pc # "new" /\ manifest.exports.t = "string") =>
        pc = "constructed" /\ main = manifest.exports.s

\* C9, amended: whenever exports is a non-empty string, the entry point is
\* that string, whatever main is.
C9_NonEmptyStringExportsIsEntry ==
    (pc # "new" /\ manifest.exports.t = "string" /\ manifest.exports.s # "") =>
        pc = "constructed" /\ main = manifest.exports.s

\* a descriptor built from a string exports and a different, non-empty main
C9_Witness ==
    /\ pc = "constructed"
    /\ manifest.exports = Str("./exports.js")
    /\ manifest.main = Str("./main.js")
    /\ main = "./exports.js"

\* exports yields no entry point: it is absent, or a table with none of the
\* five keys, or the selected value is a table with none of the four keys
NoEntryViaExports(pj) ==
    \/ pj.exports.t = "undefined"
    \/ /\ pj.exports.t = "object"
       /\ \A k \in TopKeys : Get(pj.exports, k).t = "undefined"
    \/ /\ pj.exports.t = "object"
       /\ SelectExport(pj.exports).t = "object"
       /\ \A k \in NestedKeys : Get(SelectExport(pj.exports), k).t = "undefined"

\* C10: when exports yields no entry point, construction completes and the
\* entry point is main, or ./index.js when main is absent.
C10_FallbackToMain ==
    (pc # "new" /\ NoEntryViaExports(manifest)) =>
        /\ pc = "constructed"
        /\ main = Or(manifest.main, Str("./index.js")).s


TopOrder == <<"import", "require", "node", "default", ".">>
NestedOrder == <<"import", "require", "node", "default">>

RECURSIVE FirstPresent(_, _)
\* the value of the first key of `order` the table holds, Undef if it holds none
FirstPresent(table, order) ==
    IF order = <<>> THEN Undef
    ELSE IF Get(table, Head(order)).t # "undefined" THEN Get(table, Head(order))
    ELSE FirstPresent(table, Tail(order))

RECURSIVE FirstNonEmpty(_, _)
\* the value of the first key of `order` under which the table holds a table
\* or a non-empty string, Undef if there is none
FirstNonEmpty(table, order) ==
    IF order = <<>> THEN Undef
    ELSE IF Get(table, Head(order)).t = "object" THEN Get(table, Head(order))
    ELSE IF Get(table, Head(order)).t = "string" /\ Get(table, Head(order)).s # ""
         THEN Get(table, Head(order))
    ELSE FirstNonEmpty(table, Tail(order))

\* C11 as stated: for a table exports holding one of the five keys, the
\* selected value is the first present of import, require, node, default, "."
\* and the entry point is that value or, when it is a table holding one of
\* the four keys, the first present of its import, require, node, default.
C11_FirstPresentIsEntry ==
    LET selected == FirstPresent(manifest.exports, TopOrder) IN
    (/\ pc # "new"
     /\ manifest.exports.t = "object"
     /\ selected.t # "undefined"
     /\ selected.t = "object" => FirstPresent(selected, NestedOrder).t # "undefined") =>
        /\ pc = "constructed"
        /\ main = IF selected.t = "string" THEN selected.s
                  ELSE FirstPresent(selected, NestedOrder).s

\* C11, amended: for a table exports holding a table or a non-empty string
\* under one of the five keys, construction completes, the selected value is
\* the first such value in the order import, require, node, default, "." (an
\* empty string counts as absent), and the entry point is that value or, when
\* it is a table, the first non-empty string of its import, require, node,
\* default, or main / ./index.js when it has none.
C11_FirstNonEmptyIsEntry ==
    LET selected == FirstNonEmpty(manifest.exports, TopOrder) IN
    (/\ pc # "new"
     /\ manifest.exports.t = "object"
     /\ selected.t # "undefined") =>
        /\ pc = "constructed"
        /\ main = IF selected.t = "string" THEN selected.s
                  ELSE IF FirstNonEmpty(selected, NestedOrder).t = "string"
                       THEN FirstNonEmpty(selected, NestedOrder).s
                  ELSE IF manifest.main.t = "string" /\ manifest.main.s # ""
                       THEN manifest.main.s
                  ELSE "./index.js"

\* import and require both present at both levels, import a table at the top:
\* the entry point is the nested import
C11_Witness ==
    /\ pc = "constructed"
    /\ manifest.exports.t = "object"
    /\ Get(manifest.exports, "import").t = "object"
    /\ Get(manifest.exports, "require") = Str("./require.js")
    /\ Get(Get(manifest.exports, "import"), "import") = Str("./n/import.mjs")
    /\ Get(Get(manifest.exports, "import"), "require") = Str("./n/require.js")
    /\ manifest.main = Str("./main.js")
    /\ main = "./n/import.mjs"

-----------------------------------------------------------------------------
(* Properties of the registries (SpecRegistry).                             *)

\* the bare name of an identifier: its last segment
BareName(identifier) == <<identifier[Len(identifier)]>>

\* a lookup answers with the factory the registry holds under the bare name
\* of the identifier, or with the not-registered error when it holds none
LookupResult(call, registry) ==
    LET name == BareName(call.arg[1]) IN
    /\ call.err = IF registry[name] = Absent THEN "NotRegistered" ELSE "none"
    /\ call.ret = registry[name]


\* C3: once a name is registered under a kind, every later register call of
\* that kind with that name fails with the duplicate-registration error and
\* leaves the registry as it was, and a lookup of the name keeps returning
\* the factory registered first.
C3_NoReRegistration ==
    [][\A n \in Names :
         /\ registeredAccessories[n] # Absent =>
              /\ registeredAccessories'[n] = registeredAccessories[n]
              /\ (lastCall'.op = "registerAccessory" /\ lastCall'.arg[1] = n) =>
                    /\ lastCall'.err = "AlreadyRegistered"
                    /\ registeredAccessories' = registeredAccessories
              /\ (lastCall'.op = "getAccessoryConstructor"
                  /\ getAccessoryName(lastCall'.arg[1]) = n) =>
                    /\ lastCall'.err = "none"
                    /\ lastCall'.ret = registeredAccessories[n]
         /\ registeredPlatforms[n] # Absent =>
              /\ registeredPlatforms'[n] = registeredPlatforms[n]
              /\ (lastCall'.op = "registerPlatform" /\ lastCall'.arg[1] = n) =>
                    /\ lastCall'.err = "AlreadyRegistered"
                    /\ registeredPlatforms' = registeredPlatforms
              /\ (lastCall'.op = "getPlatformConstructor"
                  /\ getPlatformName(lastCall'.arg[1]) = n) =>
                    /\ lastCall'.err = "none"
                    /\ lastCall'.ret = registeredPlatforms[n]]_vars

\* a second registration of an accessory name with another factory was
\* refused and the first factory is still the registered one
C3_Witness ==
    /\ lastCall.op = "registerAccessory"
    /\ lastCall.err = "AlreadyRegistered"
    /\ lastCall.arg[2] = "ctor2"
    /\ registeredAccessories[lastCall.arg[1]] = "ctor1"

\* what a register call does to the registry of its kind, whatever the flag:
\* the call made, the registry before and after, the message it may log
Registered(call, before, after, message) ==
    LET name == call.arg[1] IN
    IF before[name] # Absent
    THEN call.err = "AlreadyRegistered" /\ after = before /\ log' = log
    ELSE /\ call.err = "none"
         /\ after = [before EXCEPT ![name] = call.arg[2]]
         /\ log' = IF disabled THEN log ELSE log \cup {message}

\* C18: a register call is refused or performed by the registry of its kind
\* alone, the same with the disabled flag set or clear, which only decides
\* whether the registration is logged; setting the flag changes no registry,
\* and a lookup answers by the registry alone.  So the registries, the
\* errors and the lookups of a sequence of calls are those of the same
\* sequence with the flag never set.
C18_DisabledOnlySilences ==
    [][/\ lastCall'.op = "setDisabled" =>
             UNCHANGED <<registeredAccessories, registeredPlatforms, log>>
       /\ lastCall'.op = "registerAccessory" =>
             /\ Registered(lastCall', registeredAccessories, registeredAccessories',
                           "register-accessory")
             /\ UNCHANGED <<registeredPlatforms, disabled>>
       /\ lastCall'.op = "registerPlatform" =>
             /\ Registered(lastCall', registeredPlatforms, registeredPlatforms',
                           "register-platform")
             /\ UNCHANGED <<registeredAccessories, disabled>>
       /\ lastCall'.op = "getAccessoryConstructor" =>
             /\ LookupResult(lastCall', registeredAccessories)
             /\ UNCHANGED <<registeredAccessories, registeredPlatforms, disabled>>
       /\ lastCall'.op = "getPlatformConstructor" =>
             /\ LookupResult(lastCall', registeredPlatforms)
             /\ UNCHANGED <<registeredAccessories, registeredPlatforms, disabled>>]_vars

\* a platform was registered and logged, the plugin was then disabled, an
\* accessory was registered without a message and a second registration of
\* the platform has just been refused
C18_Witness ==
    /\ disabled
    /\ log = {"register-platform"}
    /\ registeredAccessories[<<"A">>] = "ctor1"
    /\ registeredPlatforms[<<"A">>] = "ctor1"
    /\ lastCall.op = "registerPlatform"
    /\ lastCall.arg = <<<<"A">>, "ctor2">>
    /\ lastCall.err = "AlreadyRegistered"

-----------------------------------------------------------------------------
(* Properties of the lookups (SpecLookup).                                  *)

\* C12: getAccessoryConstructor and getPlatformConstructor fail with the
\* not-registered error exactly when the registry of their kind holds no
\* factory under the bare name of their identifier, and return that factory
\* otherwise; either way the registries and the dynamic platform lists stay
\* as they were.
C12_LookupByBareName ==
    [][/\ lastCall'.op = "getAccessoryConstructor" =>
            /\ LookupResult(lastCall', registeredAccessories)
            /\ UNCHANGED <<registeredAccessories, registeredPlatforms,
                           activeDynamicPlatforms>>
       /\ lastCall'.op = "getPlatformConstructor" =>
            /\ LookupResult(lastCall', registeredPlatforms)
            /\ UNCHANGED <<registeredAccessories, registeredPlatforms,
                           activeDynamicPlatforms>>]_vars

\* a platform looked up by its qualified identifier, found under the bare
\* name, with another factory registered as an accessory under that name and
\* a dynamic platform assigned to it
C12_Witness ==
    /\ lastCall.op = "getPlatformConstructor"
    /\ lastCall.arg = << <<"homebridge-x", "A">> >>
    /\ lastCall.err = "none"
    /\ lastCall.ret = "ctor2"
    /\ registeredPlatforms[<<"A">>] = "ctor2"
    /\ registeredAccessories[<<"A">>] = "ctor1"
    /\ activeDynamicPlatforms[<<"A">>] # <<>>

-----------------------------------------------------------------------------
(* Properties of the dynamic platform lists (SpecDynamic).                  *)

Reverse(s) == [i \in 1..Len(s) |-> s[Len(s) + 1 - i]]

RECURSIVE InstancesOf(_, _)
\* the instances of the calls of `calls` (oldest first) that `keep` selects
InstancesOf(calls, keep) ==
    IF calls = <<>> THEN <<>>
    ELSE LET rest == InstancesOf(Tail(calls), keep) IN
         IF Head(calls)[1] \in keep THEN <<Head(calls)[2]>> \o rest ELSE rest

\* C4 as stated: for every identifier P given to assignDynamicPlatform, with
\* x1..xn the instances assigned to P, getActiveDynamicPlatform(P) is xn and
\* the list for P is xn..x1; it is absent for a P never assigned.
C4_ActiveIsLastAssignedToIdentifier ==
    \A P \in Identifiers :
        LET xs == InstancesOf(assigned, {P}) IN
        /\ ListGet(activeDynamicPlatforms, P) = Reverse(xs)
        /\ ActiveDynamicPlatform(P) = IF xs = <<>> THEN Absent ELSE xs[Len(xs)]

\* C4, amended: for every bare platform name N, with x1..xn the instances
\* assigned through identifiers that normalise to N, the list for N is xn..x1
\* and getActiveDynamicPlatform(N) returns xn, or absent when n = 0; a
\* getActiveDynamicPlatform call returns the head of the list stored under its
\* argument as given, which is absent for a qualified identifier.
C4_ActiveIsLastAssignedToName ==
    /\ \A N \in Names :
         LET xs == InstancesOf(assigned, {P \in Identifiers : getPlatformName(P) = N}) IN
         /\ activeDynamicPlatforms[N] = Reverse(xs)
         /\ ActiveDynamicPlatform(N) = IF xs = <<>> THEN Absent ELSE xs[Len(xs)]
    /\ \A P \in Identifiers \ Names : ActiveDynamicPlatform(P) = Absent
    /\ lastCall.op = "getActiveDynamicPlatform" =>
         lastCall.ret = ActiveDynamicPlatform(lastCall.arg[1])

\* two assignments to one platform, the first through its qualified
\* identifier: the lookup of the bare name returns the second
C4_Witness ==
    /\ assigned = << <<<<"homebridge-x", "A">>, "x1">>, <<<<"A">>, "x2">> >>
    /\ activeDynamicPlatforms[<<"A">>] = <<"x2", "x1">>
    /\ lastCall.op = "getActiveDynamicPlatform"
    /\ lastCall.arg = <<<<"A">>>>
    /\ lastCall.ret = "x2"


-----------------------------------------------------------------------------
(* Properties of the accessory handles (SpecHandle, SpecForward).           *)

\* C5: with h any handle tagged with a plugin and a platform, the handle
\* deserialize builds from the record serialize makes of h has h's
\* displayName, UUID, category, context, plugin and platform.
C5_RoundTrip ==
    (lastCall.op = "deserialize" /\ lastCall.err = "none") =>
        \A h \in Refs(handles) \ {lastCall.ret} :
            (/\ handles[h].plugin # Absent
             /\ handles[h].platform # Absent
             /\ SerializeRecord(handles[h], accessories) = lastCall.arg[1]) =>
                LET new == handles[lastCall.ret] IN
                /\ new.displayName = handles[h].displayName
                /\ new.UUID = handles[h].UUID
                /\ new.category = handles[h].category
                /\ new.context = handles[h].context
                /\ new.plugin = handles[h].plugin
                /\ new.platform = handles[h].platform

\* the record of a tagged, renamed handle with a category and a context of
\* its own was deserialized into another handle, on another delegate
C5_Witness ==
    /\ lastCall.op = "deserialize"
    /\ lastCall.err = "none"
    /\ \E h \in Refs(handles) \ {lastCall.ret} :
          /\ SerializeRecord(handles[h], accessories) = lastCall.arg[1]
          /\ handles[h].plugin = "homebridge-x"
          /\ handles[h].platform = "PlatformY"
          /\ handles[h].category = "LIGHTBULB"
          /\ handles[h].context = "{foo:bar}"
          /\ handles[h].displayName = "Fan"
          /\ handles[lastCall.ret].displayName = "Fan"
          /\ handles[lastCall.ret].hap # handles[h].hap

\* C6: an identify notification runs every listener of the handle once and
\* then the completion callback once, whatever the listeners do.
C6_IdentifyAlwaysCompletes ==
    lastCall.op = "identify" =>
        LET n == Len(handles[lastCall.arg[1]].listeners)
            trace == lastCall.ret
        IN  /\ Len(trace) = n + 1
            /\ \A i \in 1..n : trace[i] \in {"listener-returned", "listener-threw"}
            /\ trace[n + 1] = "callback"

OwnKeys == {"plugin", "platform", "context"}

\* C7: the record serialize returns holds the handle's plugin, platform and
\* context under those keys and every field of the delegate's serialization
\* under its own key: neither side overwrites the other.
C7_NoKeyCollision ==
    lastCall.op = "serialize" =>
        LET accessory == handles[lastCall.arg[1]]
            delegate == AccessorySerialize(accessories[accessory.hap])
            record == lastCall.ret
        IN  /\ record.plugin = accessory.plugin
            /\ record.platform = accessory.platform
            /\ record.context = accessory.context
            /\ DOMAIN delegate \cap OwnKeys = {}
            /\ DOMAIN record = DOMAIN delegate \cup OwnKeys
            /\ \A k \in DOMAIN delegate : record[k] = delegate[k]

\* a tagged handle with a context of its own was serialized
C7_Witness ==
    /\ lastCall.op = "serialize"
    /\ lastCall.ret.plugin = "homebridge-x"
    /\ lastCall.ret.platform = "PlatformY"
    /\ lastCall.ret.context = "{foo:bar}"
    /\ lastCall.ret.category = "LIGHTBULB"

\* C8: updateDisplayName(n) with a non-empty n leaves n in the handle and in
\* its delegate; the handle's name then stays until the next rename, and a
\* serialize returns a record with the handle's name.
C8_RenameReachesRecord ==
    [][\A h \in Refs(handles) :
         /\ (/\ lastCall'.op = "updateDisplayName"
             /\ lastCall'.arg[1] = h
             /\ lastCall'.arg[2] # "") =>
               /\ handles'[h].displayName = lastCall'.arg[2]
               /\ accessories'[handles'[h].hap].displayName = lastCall'.arg[2]
         /\ ~(lastCall'.op = "updateDisplayName" /\ lastCall'.arg[1] = h) =>
               handles'[h].displayName = handles[h].displayName
         /\ (lastCall'.op = "serialize" /\ lastCall'.arg[1] = h) =>
               lastCall'.ret.displayName = handles[h].displayName]_vars

\* a handle named Lamp has been renamed to Fan
C8_Witness ==
    /\ lastCall.op = "updateDisplayName"
    /\ lastCall.before = "Lamp"
    /\ lastCall.arg[2] = "Fan"
    /\ handles[lastCall.arg[1]].displayName = "Fan"
    /\ accessories[handles[lastCall.arg[1]].hap].displayName = "Fan"

-----------------------------------------------------------------------------
(* Properties of the injection slot (SpecInject).                           *)

\* C13: between operations the static injection slot is empty, after a
\* deserialize that returned as after one that failed; a handle constructed
\* by plugin code gets a delegate of its own, made with the constructor's
\* arguments, and no two handles share a delegate.
C13_SlotEmptyBetweenOperations ==
    /\ injectedAccessory = NoRef
    /\ \A h1, h2 \in Refs(handles) : h1 # h2 => handles[h1].hap # handles[h2].hap
    /\ lastCall.op = "new" =>
         LET delegate == accessories[handles[lastCall.ret].hap] IN
         /\ handles[lastCall.ret].hap = Len(accessories)
         /\ delegate.displayName = lastCall.arg[1]
         /\ delegate.UUID = lastCall.arg[2]
         /\ delegate.identify = <<lastCall.ret>>
         /\ handles[lastCall.ret].plugin = Absent

\* a handle was constructed after a deserialize: the first handle carries the
\* plugin of its record, the second has a delegate of its own
C13_Witness ==
    /\ lastCall.op = "new"
    /\ lastCall.ret = 2
    /\ handles[1].plugin = "homebridge-x"
    /\ handles[1].displayName = "Fan"
    /\ handles[2].displayName = "Lamp"
    /\ handles[2].hap # handles[1].hap
    /\ injectedAccessory = NoRef

-----------------------------------------------------------------------------
(* Properties of the mirror fields (SpecMirror).                            *)

\* the handle's displayName and UUID are its delegate's, and its services is
\* the delegate's list
Mirrors(handle, accs) ==
    /\ handle.displayName = accs[handle.hap].displayName
    /\ handle.UUID = accs[handle.hap].UUID
    /\ handle.services = handle.hap

\* C19: after every operation on the handles (construction, deserialize,
\* updateDisplayName, addService, removeService, serialize) each handle
\* mirrors its delegate in displayName, UUID and services, and an
\* updateDisplayName with an empty name changes no handle and no delegate.
C19_HandleMirrorsDelegate ==
    [][/\ \A h \in Refs(handles') : Mirrors(handles'[h], accessories')
       /\ (lastCall'.op = "updateDisplayName" /\ lastCall'.arg[2] = "") =>
             UNCHANGED <<handles, accessories>>]_vars

\* a deserialized handle named Fan, with a service added, was renamed to the
\* empty name: it keeps its name and mirrors its delegate
C19_Witness ==
    /\ lastCall.op = "updateDisplayName"
    /\ lastCall.arg[2] = ""
    /\ lastCall.before = "Fan"
    /\ LET handle == handles[lastCall.arg[1]] IN
       /\ handle.plugin = "homebridge-x"
       /\ handle.displayName = "Fan"
       /\ accessories[handle.hap].displayName = "Fan"
       /\ accessories[handle.services].services = <<"AccessoryInformation", "Lightbulb">>

=============================================================================
